---- MODULE Spec2Model ----
(***************************************************************************)
(* Half-edge mesh store and the local topological operators of compAS.    *)
(*                                                                         *)
(* split_edge is translated from                                           *)
(*   src/src/brg/datastructures/mesh/algorithms/split.py.                  *)
(* The mesh store (Mesh), collapse_edge and swap_edge are not part of the  *)
(* available sources; they are modelled from sections 3 and 4 of spec.md.  *)
(*                                                                         *)
(* A mesh is a record [vertex, halfedge, face, max_int_key, max_int_fkey]: *)
(*   vertex   : key -> <<x, y, z>>                                         *)
(*   halfedge : key -> (neighbour key -> face key or None)                 *)
(*   face     : fkey -> (vertex key -> successor vertex key in the cycle)  *)
(* Coordinates are integers; the parameter t is counted in tenths.         *)
(***************************************************************************)
EXTENDS Integers, FiniteSets, Sequences, TLC

VARIABLES mesh, hist, nops, pc, cfg, loc, log

vars == <<mesh, hist, nops, pc, cfg, loc, log>>

\* the variables of a run of the remeshing driver
drivervars == <<pc, cfg, loc, log>>

\* ------------------------------------------------------------------------
\* Bounds
\* ------------------------------------------------------------------------

\* number of operator calls in one run
MaxOps == 2

\* ------------------------------------------------------------------------
\* Python values
\* ------------------------------------------------------------------------

\* the None face: the unbounded side of a boundary half-edge
None == 0 - 1

\* t is represented by the integer 10 * t
TDen == 10

\* values of t tried by the calls: 0.0, 0.5 (the default), 1.0
TVals == {0, 5, 10}

\* d[k] = val on a dict
DictSet(d, k, val) == [x \in (DOMAIN d) \cup {k} |-> IF x = k THEN val ELSE d[x]]

\* del d[k] on a dict
DictDel(d, k) == [x \in (DOMAIN d) \ {k} |-> d[x]]

\* the empty dict
EmptyDict == [x \in {} |-> None]

\* ------------------------------------------------------------------------
\* Mesh store
\* ------------------------------------------------------------------------

\* mesh.halfedge[u][v] does not raise KeyError
HasHalfedge(m, u, v) == u \in DOMAIN m.halfedge /\ v \in DOMAIN m.halfedge[u]

\* mesh.vertex_coordinates(key)
vertex_coordinates(m, key) == m.vertex[key]

\* mesh.add_vertex(x, y, z): a fresh key, an empty adjacency row
add_vertex(m, xyz) ==
    LET key == m.max_int_key + 1
    IN [mesh |-> [m EXCEPT !.vertex = DictSet(m.vertex, key, xyz),
                           !.halfedge = DictSet(m.halfedge, key, EmptyDict),
                           !.max_int_key = key],
        key |-> key]

\* the successor dict of the cycle given as a sequence of vertex keys
CycleDict(vs) == [x \in {vs[i] : i \in 1..Len(vs)} |->
                    LET i == CHOOSE j \in 1..Len(vs) : vs[j] = x
                    IN vs[(i % Len(vs)) + 1]]

\* the directed pairs (a, b) of a successor dict
CyclePairs(cyc) == {<<a, cyc[a]>> : a \in DOMAIN cyc}

\* mesh.add_face(vertices, fkey): binds every consecutive pair to fkey and
\* creates the reverse entry, bound to None, where it is missing
add_face(m, vs, fkey) ==
    LET cyc == CycleDict(vs)
        he == [a \in DOMAIN m.halfedge |->
                 [b \in (DOMAIN m.halfedge[a])
                          \cup (IF a \in DOMAIN cyc THEN {cyc[a]} ELSE {})
                          \cup {c \in DOMAIN cyc : cyc[c] = a} |->
                    IF a \in DOMAIN cyc /\ cyc[a] = b THEN fkey
                    ELSE IF b \in DOMAIN m.halfedge[a] THEN m.halfedge[a][b]
                    ELSE None]]
    IN [m EXCEPT !.face = DictSet(m.face, fkey, cyc),
                 !.halfedge = he,
                 !.max_int_fkey = IF fkey > @ THEN fkey ELSE @]

\* Mesh.from_vertices_and_faces(vertices, faces), keys counted from 0
RECURSIVE AddFaces(_, _, _)
AddFaces(m, faces, i) ==
    IF i > Len(faces) THEN m
    ELSE AddFaces(add_face(m, faces[i], i - 1), faces, i + 1)

from_vertices_and_faces(xyzs, faces) ==
    AddFaces([vertex |-> [k \in 0..(Len(xyzs) - 1) |-> xyzs[k + 1]],
              halfedge |-> [k \in 0..(Len(xyzs) - 1) |-> EmptyDict],
              face |-> EmptyDict,
              max_int_key |-> Len(xyzs) - 1,
              max_int_fkey |-> 0 - 1],
             faces, 1)

\* ------------------------------------------------------------------------
\* Geometry
\* ------------------------------------------------------------------------

\* Line(sp, ep).scale(t); line.end
LineScaleEnd(sp, ep, t) ==
    [i \in 1..3 |-> sp[i] + ((t * (ep[i] - sp[i])) \div TDen)]

\* ------------------------------------------------------------------------
\* split_edge
\* ------------------------------------------------------------------------

\* the value of a call: the mesh after it, how it ended, what it returned
Outcome(m, status, ret) == [mesh |-> m, status |-> status, ret |-> ret]

\* split_edge that leaves the face of half-edge (v, u) as it was
SplitRewire_NoFaceVU(m, u, v, t) ==
    LET fkey_uv == m.halfedge[u][v]
        fkey_vu == m.halfedge[v][u]
        sp == vertex_coordinates(m, u)
        ep == vertex_coordinates(m, v)
        added == add_vertex(m, LineScaleEnd(sp, ep, t))
        w == added.key
        m0 == added.mesh
        \* split half-edge UV
        h1 == [m0.halfedge EXCEPT ![u] = DictSet(@, w, fkey_uv)]
        h2 == [h1 EXCEPT ![w] = DictSet(@, v, fkey_uv)]
        h3 == [h2 EXCEPT ![u] = DictDel(@, v)]
        f1 == IF fkey_uv # None
              THEN [m0.face EXCEPT ![fkey_uv] = DictSet(DictSet(@, u, w), w, v)]
              ELSE m0.face
        \* split half-edge VU
        h4 == [h3 EXCEPT ![v] = DictSet(@, w, fkey_vu)]
        h5 == [h4 EXCEPT ![w] = DictSet(@, u, fkey_vu)]
        h6 == [h5 EXCEPT ![v] = DictDel(@, u)]
        f2 == f1
    IN Outcome([m0 EXCEPT !.halfedge = h6, !.face = f2], "ok", w)

\* split_edge that does not bind the half-edge (w, u)
SplitRewire_NoHalfedgeWU(m, u, v, t) ==
    LET fkey_uv == m.halfedge[u][v]
        fkey_vu == m.halfedge[v][u]
        sp == vertex_coordinates(m, u)
        ep == vertex_coordinates(m, v)
        added == add_vertex(m, LineScaleEnd(sp, ep, t))
        w == added.key
        m0 == added.mesh
        \* split half-edge UV
        h1 == [m0.halfedge EXCEPT ![u] = DictSet(@, w, fkey_uv)]
        h2 == [h1 EXCEPT ![w] = DictSet(@, v, fkey_uv)]
        h3 == [h2 EXCEPT ![u] = DictDel(@, v)]
        f1 == IF fkey_uv # None
              THEN [m0.face EXCEPT ![fkey_uv] = DictSet(DictSet(@, u, w), w, v)]
              ELSE m0.face
        \* split half-edge VU
        h4 == [h3 EXCEPT ![v] = DictSet(@, w, fkey_vu)]
        h5 == h4
        h6 == [h5 EXCEPT ![v] = DictDel(@, u)]
        f2 == IF fkey_vu # None
              THEN [f1 EXCEPT ![fkey_vu] = DictSet(DictSet(@, v, w), w, u)]
              ELSE f1
    IN Outcome([m0 EXCEPT !.halfedge = h6, !.face = f2], "ok", w)

\* split_edge that binds the half-edge (w, v) to the face of (v, u)
SplitRewire_WrongFaceWV(m, u, v, t) ==
    LET fkey_uv == m.halfedge[u][v]
        fkey_vu == m.halfedge[v][u]
        sp == vertex_coordinates(m, u)
        ep == vertex_coordinates(m, v)
        added == add_vertex(m, LineScaleEnd(sp, ep, t))
        w == added.key
        m0 == added.mesh
        \* split half-edge UV
        h1 == [m0.halfedge EXCEPT ![u] = DictSet(@, w, fkey_uv)]
        h2 == [h1 EXCEPT ![w] = DictSet(@, v, fkey_vu)]
        h3 == [h2 EXCEPT ![u] = DictDel(@, v)]
        f1 == IF fkey_uv # None
              THEN [m0.face EXCEPT ![fkey_uv] = DictSet(DictSet(@, u, w), w, v)]
              ELSE m0.face
        \* split half-edge VU
        h4 == [h3 EXCEPT ![v] = DictSet(@, w, fkey_vu)]
        h5 == [h4 EXCEPT ![w] = DictSet(@, u, fkey_vu)]
        h6 == [h5 EXCEPT ![v] = DictDel(@, u)]
        f2 == IF fkey_vu # None
              THEN [f1 EXCEPT ![fkey_vu] = DictSet(DictSet(@, v, w), w, u)]
              ELSE f1
    IN Outcome([m0 EXCEPT !.halfedge = h6, !.face = f2], "ok", w)

\* split_edge that does not bind the half-edge (w, v)
SplitRewire_NoHalfedgeWV(m, u, v, t) ==
    LET fkey_uv == m.halfedge[u][v]
        fkey_vu == m.halfedge[v][u]
        sp == vertex_coordinates(m, u)
        ep == vertex_coordinates(m, v)
        added == add_vertex(m, LineScaleEnd(sp, ep, t))
        w == added.key
        m0 == added.mesh
        \* split half-edge UV
        h1 == [m0.halfedge EXCEPT ![u] = DictSet(@, w, fkey_uv)]
        h2 == h1
        h3 == [h2 EXCEPT ![u] = DictDel(@, v)]
        f1 == IF fkey_uv # None
              THEN [m0.face EXCEPT ![fkey_uv] = DictSet(DictSet(@, u, w), w, v)]
              ELSE m0.face
        \* split half-edge VU
        h4 == [h3 EXCEPT ![v] = DictSet(@, w, fkey_vu)]
        h5 == [h4 EXCEPT ![w] = DictSet(@, u, fkey_vu)]
        h6 == [h5 EXCEPT ![v] = DictDel(@, u)]
        f2 == IF fkey_vu # None
              THEN [f1 EXCEPT ![fkey_vu] = DictSet(DictSet(@, v, w), w, u)]
              ELSE f1
    IN Outcome([m0 EXCEPT !.halfedge = h6, !.face = f2], "ok", w)

\* split_edge that does not make w the successor of u in the face of (u, v)
SplitRewire_NoFaceUW(m, u, v, t) ==
    LET fkey_uv == m.halfedge[u][v]
        fkey_vu == m.halfedge[v][u]
        sp == vertex_coordinates(m, u)
        ep == vertex_coordinates(m, v)
        added == add_vertex(m, LineScaleEnd(sp, ep, t))
        w == added.key
        m0 == added.mesh
        \* split half-edge UV
        h1 == [m0.halfedge EXCEPT ![u] = DictSet(@, w, fkey_uv)]
        h2 == [h1 EXCEPT ![w] = DictSet(@, v, fkey_uv)]
        h3 == [h2 EXCEPT ![u] = DictDel(@, v)]
        f1 == IF fkey_uv # None
              THEN [m0.face EXCEPT ![fkey_uv] = DictSet(@, w, v)]
              ELSE m0.face
        \* split half-edge VU
        h4 == [h3 EXCEPT ![v] = DictSet(@, w, fkey_vu)]
        h5 == [h4 EXCEPT ![w] = DictSet(@, u, fkey_vu)]
        h6 == [h5 EXCEPT ![v] = DictDel(@, u)]
        f2 == IF fkey_vu # None
              THEN [f1 EXCEPT ![fkey_vu] = DictSet(DictSet(@, v, w), w, u)]
              ELSE f1
    IN Outcome([m0 EXCEPT !.halfedge = h6, !.face = f2], "ok", w)

\* split_edge whose line scaling also moves the end point v
SplitRewire_MovesV(m, u, v, t) ==
    LET fkey_uv == m.halfedge[u][v]
        fkey_vu == m.halfedge[v][u]
        sp == vertex_coordinates(m, u)
        ep == vertex_coordinates(m, v)
        added == add_vertex(m, LineScaleEnd(sp, ep, t))
        w == added.key
        m0 == [added.mesh EXCEPT !.vertex[v] = LineScaleEnd(sp, ep, t)]
        h1 == [m0.halfedge EXCEPT ![u] = DictSet(@, w, fkey_uv)]
        h2 == [h1 EXCEPT ![w] = DictSet(@, v, fkey_uv)]
        h3 == [h2 EXCEPT ![u] = DictDel(@, v)]
        f1 == IF fkey_uv # None
              THEN [m0.face EXCEPT ![fkey_uv] = DictSet(DictSet(@, u, w), w, v)]
              ELSE m0.face
        h4 == [h3 EXCEPT ![v] = DictSet(@, w, fkey_vu)]
        h5 == [h4 EXCEPT ![w] = DictSet(@, u, fkey_vu)]
        h6 == [h5 EXCEPT ![v] = DictDel(@, u)]
        f2 == IF fkey_vu # None
              THEN [f1 EXCEPT ![fkey_vu] = DictSet(DictSet(@, v, w), w, u)]
              ELSE f1
    IN Outcome([m0 EXCEPT !.halfedge = h6, !.face = f2], "ok", w)

\* the rewiring of split_edge, statement by statement
SplitRewire(m, u, v, t) ==
    LET fkey_uv == m.halfedge[u][v]
        fkey_vu == m.halfedge[v][u]
        sp == vertex_coordinates(m, u)
        ep == vertex_coordinates(m, v)
        added == add_vertex(m, LineScaleEnd(sp, ep, t))
        w == added.key
        m0 == added.mesh
        \* split half-edge UV
        h1 == [m0.halfedge EXCEPT ![u] = DictSet(@, w, fkey_uv)]
        h2 == [h1 EXCEPT ![w] = DictSet(@, v, fkey_uv)]
        h3 == [h2 EXCEPT ![u] = DictDel(@, v)]
        f1 == IF fkey_uv # None
              THEN [m0.face EXCEPT ![fkey_uv] = DictSet(DictSet(@, u, w), w, v)]
              ELSE m0.face
        \* split half-edge VU
        h4 == [h3 EXCEPT ![v] = DictSet(@, w, fkey_vu)]
        h5 == [h4 EXCEPT ![w] = DictSet(@, u, fkey_vu)]
        h6 == [h5 EXCEPT ![v] = DictDel(@, u)]
        f2 == IF fkey_vu # None
              THEN [f1 EXCEPT ![fkey_vu] = DictSet(DictSet(@, v, w), w, u)]
              ELSE f1
    IN Outcome([m0 EXCEPT !.halfedge = h6, !.face = f2], "ok", w)

\* split_edge that skips a boundary edge only when both sides are None
split_edge_BothNone(m, u, v, t, allow_boundary) ==
    IF t <= 0 THEN Outcome(m, "ValueError", None)
    ELSE IF t >= TDen THEN Outcome(m, "ValueError", None)
    ELSE IF ~HasHalfedge(m, u, v) THEN Outcome(m, "KeyError", None)
    ELSE IF ~HasHalfedge(m, v, u) THEN Outcome(m, "KeyError", None)
    ELSE IF ~allow_boundary /\ (m.halfedge[u][v] = None /\ m.halfedge[v][u] = None)
         THEN Outcome(m, "None", None)
    ELSE SplitRewire(m, u, v, t)

\* split_edge that looks the half-edges up before it checks t
split_edge_LookupFirst(m, u, v, t, allow_boundary) ==
    IF ~HasHalfedge(m, u, v) THEN Outcome(m, "KeyError", None)
    ELSE IF ~HasHalfedge(m, v, u) THEN Outcome(m, "KeyError", None)
    ELSE IF t <= 0 THEN Outcome(m, "ValueError", None)
    ELSE IF t >= TDen THEN Outcome(m, "ValueError", None)
    ELSE IF ~allow_boundary /\ (m.halfedge[u][v] = None \/ m.halfedge[v][u] = None)
         THEN Outcome(m, "None", None)
    ELSE SplitRewire(m, u, v, t)

split_edge(m, u, v, t, allow_boundary) ==
    IF t <= 0 THEN Outcome(m, "ValueError", None)
    ELSE IF t >= TDen THEN Outcome(m, "ValueError", None)
    ELSE IF ~HasHalfedge(m, u, v) THEN Outcome(m, "KeyError", None)
    ELSE IF ~HasHalfedge(m, v, u) THEN Outcome(m, "KeyError", None)
    ELSE IF ~allow_boundary /\ (m.halfedge[u][v] = None \/ m.halfedge[v][u] = None)
         THEN Outcome(m, "None", None)
    ELSE SplitRewire(m, u, v, t)

\* ------------------------------------------------------------------------
\* delete_face, collapse_edge, swap_edge
\* ------------------------------------------------------------------------

\* mesh.delete_face(fkey): every half-edge of the face is reset to None, or
\* removed with its reverse when the reverse is None too
delete_face(m, fkey) ==
    LET pairs == CyclePairs(m.face[fkey])
        gone == {p \in pairs : m.halfedge[p[2]][p[1]] = None}
        he == [a \in DOMAIN m.halfedge |->
                 [b \in {c \in DOMAIN m.halfedge[a] :
                            <<a, c>> \notin gone /\ <<c, a>> \notin gone} |->
                    IF <<a, b>> \in pairs THEN None ELSE m.halfedge[a][b]]]
    IN [m EXCEPT !.face = DictDel(m.face, fkey), !.halfedge = he]

\* the cycle of a face after vertex v is merged into vertex u
CollapseCycle(cyc, u, v) ==
    IF v \notin DOMAIN cyc THEN cyc
    ELSE IF u \notin DOMAIN cyc
         THEN [x \in ((DOMAIN cyc) \ {v}) \cup {u} |->
                 IF x = u THEN cyc[v] ELSE IF cyc[x] = v THEN u ELSE cyc[x]]
    ELSE IF cyc[u] = v
         THEN [x \in (DOMAIN cyc) \ {v} |-> IF x = u THEN cyc[v] ELSE cyc[x]]
    ELSE IF cyc[v] = u
         THEN [x \in (DOMAIN cyc) \ {v} |-> IF cyc[x] = v THEN u ELSE cyc[x]]
    ELSE cyc

\* a face that holds u and v without holding the edge between them
Pinched(cyc, u, v) ==
    u \in DOMAIN cyc /\ v \in DOMAIN cyc /\ cyc[u] # v /\ cyc[v] # u

\* the faces left after v is merged into u: the faces that keep 3 vertices
CollapseFaces(m, u, v) ==
    LET kept == {f \in DOMAIN m.face :
                    Cardinality(DOMAIN CollapseCycle(m.face[f], u, v)) >= 3}
    IN [f \in kept |-> CollapseCycle(m.face[f], u, v)]

\* the faces of nf that hold the directed pair (a, b)
FacesOfPair(nf, a, b) == {f \in DOMAIN nf : a \in DOMAIN nf[f] /\ nf[f][a] = b}

\* the collapse creates no pinched face, no half-edge with two faces and no
\* duplicate face (two faces that get the same vertices and did not have the
\* same vertices before)
CollapseLegal(m, u, v) ==
    LET nf == CollapseFaces(m, u, v)
        keys == (DOMAIN m.vertex) \ {v}
    IN /\ \A f \in DOMAIN m.face : ~Pinched(m.face[f], u, v)
       /\ \A a \in keys, b \in keys : Cardinality(FacesOfPair(nf, a, b)) <= 1
       /\ \A f \in DOMAIN nf, g \in DOMAIN nf :
             (f # g /\ DOMAIN nf[f] = DOMAIN nf[g]) => DOMAIN m.face[f] = DOMAIN m.face[g]

\* the adjacency after the half-edges of v are redirected to u
CollapseHalfedge(m, u, v) ==
    LET nf == CollapseFaces(m, u, v)
        keys == (DOMAIN m.vertex) \ {v}
    IN [a \in keys |->
          [b \in {c \in keys : FacesOfPair(nf, a, c) # {} \/ FacesOfPair(nf, c, a) # {}} |->
             IF FacesOfPair(nf, a, b) # {}
             THEN CHOOSE f \in FacesOfPair(nf, a, b) : TRUE
             ELSE None]]

\* collapse_edge that leaves v in the vertex store
collapse_edge_KeepVertex(m, u, v) ==
    IF ~HasHalfedge(m, u, v) \/ ~HasHalfedge(m, v, u) THEN Outcome(m, "KeyError", None)
    ELSE IF ~CollapseLegal(m, u, v) THEN Outcome(m, "TopologyError", None)
    ELSE Outcome([m EXCEPT !.face = CollapseFaces(m, u, v),
                           !.halfedge = CollapseHalfedge(m, u, v)],
                 "ok", None)

\* collapse_edge(mesh, u, v): merges v into u; u keeps its attributes
collapse_edge(m, u, v) ==
    IF ~HasHalfedge(m, u, v) \/ ~HasHalfedge(m, v, u) THEN Outcome(m, "KeyError", None)
    ELSE IF ~CollapseLegal(m, u, v) THEN Outcome(m, "TopologyError", None)
    ELSE Outcome([m EXCEPT !.vertex = DictDel(m.vertex, v),
                           !.face = CollapseFaces(m, u, v),
                           !.halfedge = CollapseHalfedge(m, u, v)],
                 "ok", None)

\* swap_edge that puts back only the triangle (u, v2, v1)
swap_edge_OneFace(m, u, v) ==
    IF ~HasHalfedge(m, u, v) \/ ~HasHalfedge(m, v, u) THEN Outcome(m, "KeyError", None)
    ELSE
    LET f1 == m.halfedge[u][v]
        f2 == m.halfedge[v][u]
    IN IF f1 = None \/ f2 = None THEN Outcome(m, "None", None)
       ELSE IF Cardinality(DOMAIN m.face[f1]) # 3 \/ Cardinality(DOMAIN m.face[f2]) # 3
            THEN Outcome(m, "None", None)
       ELSE
       LET v1 == m.face[f1][v]
           v2 == m.face[f2][u]
       IN IF v1 = v2 THEN Outcome(m, "None", None)
          ELSE IF HasHalfedge(m, v1, v2) \/ HasHalfedge(m, v2, v1)
               THEN Outcome(m, "TopologyError", None)
          ELSE Outcome(add_face(delete_face(delete_face(m, f1), f2),
                                <<u, v2, v1>>, f1),
                       "ok", None)

\* swap_edge that does not compare the two opposite vertices
swap_edge_NoCoincideCheck(m, u, v) ==
    IF ~HasHalfedge(m, u, v) \/ ~HasHalfedge(m, v, u) THEN Outcome(m, "KeyError", None)
    ELSE
    LET f1 == m.halfedge[u][v]
        f2 == m.halfedge[v][u]
    IN IF f1 = None \/ f2 = None THEN Outcome(m, "None", None)
       ELSE IF Cardinality(DOMAIN m.face[f1]) # 3 \/ Cardinality(DOMAIN m.face[f2]) # 3
            THEN Outcome(m, "None", None)
       ELSE
       LET v1 == m.face[f1][v]
           v2 == m.face[f2][u]
       IN IF HasHalfedge(m, v1, v2) \/ HasHalfedge(m, v2, v1)
               THEN Outcome(m, "TopologyError", None)
          ELSE Outcome(add_face(add_face(delete_face(delete_face(m, f1), f2),
                                         <<u, v2, v1>>, f1),
                                <<v, v1, v2>>, f2),
                       "ok", None)

\* swap_edge(mesh, u, v): the triangles (u, v, v1) and (v, u, v2) become
\* (u, v2, v1) and (v, v1, v2)
swap_edge(m, u, v) ==
    IF ~HasHalfedge(m, u, v) \/ ~HasHalfedge(m, v, u) THEN Outcome(m, "KeyError", None)
    ELSE
    LET f1 == m.halfedge[u][v]
        f2 == m.halfedge[v][u]
    IN IF f1 = None \/ f2 = None THEN Outcome(m, "None", None)
       ELSE IF Cardinality(DOMAIN m.face[f1]) # 3 \/ Cardinality(DOMAIN m.face[f2]) # 3
            THEN Outcome(m, "None", None)
       ELSE
       LET v1 == m.face[f1][v]
           v2 == m.face[f2][u]
       IN IF v1 = v2 THEN Outcome(m, "None", None)
          ELSE IF HasHalfedge(m, v1, v2) \/ HasHalfedge(m, v2, v1)
               THEN Outcome(m, "TopologyError", None)
          ELSE Outcome(add_face(add_face(delete_face(delete_face(m, f1), f2),
                                         <<u, v2, v1>>, f1),
                                <<v, v1, v2>>, f2),
                       "ok", None)

\* ------------------------------------------------------------------------
\* The state machine: a mesh and a sequence of operator calls on it
\* ------------------------------------------------------------------------

\* two triangles sharing the interior edge (0, 2)
QuadMesh ==
    from_vertices_and_faces(
        << <<0, 0, 0>>, <<8000, 0, 0>>, <<8000, 8000, 0>>, <<0, 8000, 0>> >>,
        << <<0, 1, 2>>, <<0, 2, 3>> >>)

\* a closed mesh: the tetrahedron
TetraMesh ==
    from_vertices_and_faces(
        << <<0, 0, 0>>, <<8000, 0, 0>>, <<0, 8000, 0>>, <<0, 0, 8000>> >>,
        << <<0, 2, 1>>, <<0, 1, 3>>, <<1, 2, 3>>, <<2, 0, 3>> >>)

\* the pyramid: four triangles sharing vertex 4
PyramidMesh ==
    from_vertices_and_faces(
        << <<0, 0, 0>>, <<8000, 0, 0>>, <<8000, 8000, 0>>, <<0, 8000, 0>>,
           <<4000, 4000, 0>> >>,
        << <<0, 1, 4>>, <<1, 2, 4>>, <<2, 3, 4>>, <<3, 0, 4>> >>)

\* two triangles glued back to back along all three edges: the two vertices
\* opposite to any edge coincide
PillowMesh ==
    from_vertices_and_faces(
        << <<0, 0, 0>>, <<8000, 0, 0>>, <<0, 8000, 0>> >>,
        << <<0, 1, 2>>, <<1, 0, 2>> >>)

\* six triangles around the interior edge (0, 1): 0 and 1 are boundary
\* vertices with five neighbours, the opposite vertices 2 and 3 are boundary
\* vertices with three neighbours
ValenceMesh ==
    from_vertices_and_faces(
        << <<0, 0, 0>>, <<8000, 0, 0>>, <<4000, 6000, 0>>, <<4000, 0 - 6000, 0>>,
           <<0 - 4000, 6000, 0>>, <<0 - 8000, 0, 0>>, <<12000, 0 - 6000, 0>>,
           <<16000, 0, 0>> >>,
        << <<0, 1, 2>>, <<1, 0, 3>>, <<0, 2, 4>>, <<0, 4, 5>>, <<1, 3, 6>>,
           <<1, 6, 7>> >>)

InitMeshes == {QuadMesh, TetraMesh, PyramidMesh, PillowMesh}

\* the keys a caller may pass: every key handed out so far and one more
ArgKeys(m) == 0..(m.max_int_key + 1)

\* the call before the last one, kept when it changed the mesh
Remember(h) ==
    IF h.status = "ok" /\ h.op \in {"split", "swap"}
    THEN [op |-> h.op, u |-> h.u, v |-> h.v, ret |-> h.ret, pre |-> h.pre]
    ELSE [op |-> "none", u |-> None, v |-> None, ret |-> None, pre |-> EmptyDict]

NoPrev == [op |-> "none", u |-> None, v |-> None, ret |-> None, pre |-> EmptyDict]

Call(op, u, v, t, allow, out) ==
    /\ mesh' = out.mesh
    /\ hist' = [op |-> op, u |-> u, v |-> v, t |-> t, allow |-> allow,
                status |-> out.status, ret |-> out.ret, pre |-> mesh,
                prev |-> Remember(hist)]
    /\ nops' = nops + 1

Init ==
    /\ mesh \in InitMeshes
    /\ hist = [op |-> "init", u |-> None, v |-> None, t |-> 5, allow |-> FALSE,
               status |-> "ok", ret |-> None, pre |-> mesh, prev |-> NoPrev]
    /\ nops = 0
    /\ pc = "idle"
    /\ cfg = EmptyDict
    /\ loc = EmptyDict
    /\ log = <<>>

Split ==
    /\ nops < MaxOps
    /\ \E u \in ArgKeys(mesh), v \in ArgKeys(mesh), t \in TVals, allow \in BOOLEAN :
          Call("split", u, v, t, allow, split_edge(mesh, u, v, t, allow))
    /\ UNCHANGED drivervars

Collapse ==
    /\ nops < MaxOps
    /\ \E u \in ArgKeys(mesh), v \in ArgKeys(mesh) :
          Call("collapse", u, v, 5, FALSE, collapse_edge(mesh, u, v))
    /\ UNCHANGED drivervars

Swap ==
    /\ nops < MaxOps
    /\ \E u \in ArgKeys(mesh), v \in ArgKeys(mesh) :
          Call("swap", u, v, 5, FALSE, swap_edge(mesh, u, v))
    /\ UNCHANGED drivervars

Next == Split \/ Collapse \/ Swap

Spec == Init /\ [][Next]_vars

\* ------------------------------------------------------------------------
\* Queries used by the properties
\* ------------------------------------------------------------------------

\* mesh.vertex_neighbours(key)
vertex_neighbours(m, key) == DOMAIN m.halfedge[key]

\* mesh.vertex_degree(key)
vertex_degree(m, key) == Cardinality(vertex_neighbours(m, key))

\* mesh.edges(): every undirected edge once
edges(m) ==
    {{p[1], p[2]} : p \in UNION {{<<a, b>> : b \in DOMAIN m.halfedge[a]} :
                                  a \in DOMAIN m.halfedge}}

\* the vertex sets of the faces
FaceVertexSets(m) == {DOMAIN m.face[f] : f \in DOMAIN m.face}

\* the last call was a split_edge that returned a new vertex
SplitDone == hist.op = "split" /\ hist.status = "ok"

\* the edge (u, v) of mesh m, present in both directions
IsEdge(m, u, v) == HasHalfedge(m, u, v) /\ HasHalfedge(m, v, u)

\* the edge (u, v) of mesh m has the None face on one side
IsBoundaryEdge(m, u, v) ==
    IsEdge(m, u, v) /\ (m.halfedge[u][v] = None \/ m.halfedge[v][u] = None)

\* ------------------------------------------------------------------------
\* Remeshing driver: geometry and store queries
\* ------------------------------------------------------------------------

\* the integer square root, by bisection on lo..hi
RECURSIVE IsqrtIn(_, _, _)
IsqrtIn(n, lo, hi) ==
    IF lo >= hi THEN lo
    ELSE LET mid == (lo + hi + 1) \div 2
         IN IF mid * mid <= n THEN IsqrtIn(n, mid, hi) ELSE IsqrtIn(n, lo, mid - 1)

\* math.sqrt on a squared distance
Isqrt(n) == IsqrtIn(n, 0, 46340)

\* mesh.edge_length(u, v)
edge_length(m, u, v) ==
    LET a == m.vertex[u]
        b == m.vertex[v]
    IN Isqrt((a[1] - b[1]) * (a[1] - b[1]) + (a[2] - b[2]) * (a[2] - b[2])
             + (a[3] - b[3]) * (a[3] - b[3]))

\* mesh.vertices_on_boundary(): the vertices with a half-edge on the None face
vertices_on_boundary(m) ==
    {a \in DOMAIN m.halfedge :
        \E b \in DOMAIN m.halfedge[a] :
           m.halfedge[a][b] = None \/ (HasHalfedge(m, b, a) /\ m.halfedge[b][a] = None)}

\* the sum of coordinate i over a set of vertices
RECURSIVE SumCoord(_, _, _)
SumCoord(m, keys, i) ==
    IF keys = {} THEN 0
    ELSE LET a == CHOOSE x \in keys : TRUE
         IN m.vertex[a][i] + SumCoord(m, keys \ {a}, i)

\* smooth_mesh_centroid(mesh, fixed, kmax=1): every vertex that is not fixed
\* moves to the centroid of its neighbours, all read before any is written
smooth_mesh_centroid(m, fixed) ==
    [m EXCEPT !.vertex =
        [a \in DOMAIN m.vertex |->
            IF a \in fixed \/ a \notin DOMAIN m.halfedge \/ DOMAIN m.halfedge[a] = {}
               \/ ~(DOMAIN m.halfedge[a] \subseteq DOMAIN m.vertex)
            THEN m.vertex[a]
            ELSE [i \in 1..3 |->
                    SumCoord(m, DOMAIN m.halfedge[a], i)
                       \div Cardinality(DOMAIN m.halfedge[a])]]]

\* the undirected edges as pairs <<u, v>> with u < v
EdgePairs(m) ==
    {p \in UNION {{<<a, b>> : b \in DOMAIN m.halfedge[a]} : a \in DOMAIN m.halfedge} :
        p[1] < p[2] \/ (p[1] > p[2] /\ ~HasHalfedge(m, p[2], p[1]))}

\* pair p comes before pair q
PairBefore(p, q) == p[1] < q[1] \/ (p[1] = q[1] /\ p[2] < q[2])

\* a set of pairs as a sequence, in ascending order
RECURSIVE SortedPairs(_)
SortedPairs(ps) ==
    IF ps = {} THEN <<>>
    ELSE LET p == CHOOSE x \in ps : \A y \in ps \ {x} : PairBefore(x, y)
         IN <<p>> \o SortedPairs(ps \ {p})

\* mesh.edges(): every undirected edge once; the order is fixed for a mesh:
\* ascending from the smaller key, or descending from the larger key
edges_list(m, order) ==
    LET asc == SortedPairs(EdgePairs(m))
    IN IF order = "asc" THEN asc
       ELSE [i \in 1..Len(asc) |-> <<asc[Len(asc) + 1 - i][2], asc[Len(asc) + 1 - i][1]>>]

\* max(edge_len) over a sequence of edges
RECURSIVE MaxEdgeLength(_, _, _)
MaxEdgeLength(m, es, i) ==
    IF i > Len(es) THEN 0
    ELSE LET l == edge_length(m, es[i][1], es[i][2])
             r == MaxEdgeLength(m, es, i + 1)
         IN IF l > r THEN l ELSE r

\* ------------------------------------------------------------------------
\* Remeshing driver: remesh (brg) and optimise_trimesh_topology (compas)
\* ------------------------------------------------------------------------
\* Lengths are in coordinate units (800 units for 1.0), tol in hundredths,
\* divergence and the ramp scale in thousandths; kmax_start is kept doubled
\* (K2) because its default kmax / 2.0 may be a half.

\* the largest kmax of the runs
MaxKmax == 31

\* the call of the end-to-end example: target=0.5, tol=0.05, kmax=300
ExampleTarget == 400
ExampleKmax == 300

\* target lengths of the other runs
TargetVals == {3000, 12000}

\* a run: which driver, on which mesh, with which arguments (None: left at
\* its default)
RunConfig(driver, m, target, kmax, target_start, kmax_start, allow, ufunc, order) ==
    [driver |-> driver, mesh |-> m, target |-> target, tol |-> 5, divergence |-> 10,
     kmax |-> kmax, target_start |-> target_start, kmax_start |-> kmax_start,
     allow_boundary |-> allow, ufunc |-> ufunc, order |-> order]

DriverConfigs ==
    {RunConfig(d, m, t, kx, ts, ks, al, uf, ord) :
        d \in {"remesh", "optimise"}, m \in {PyramidMesh, TetraMesh, ValenceMesh},
        t \in TargetVals, kx \in {0, 3, MaxKmax}, ts \in {None, 8000},
        ks \in {None, 0, 4}, al \in BOOLEAN, uf \in BOOLEAN, ord \in {"asc", "desc"}}
    \cup {RunConfig("remesh", PyramidMesh, ExampleTarget, ExampleKmax, None, None,
                    TRUE, FALSE, "asc")}

\* the locals of the driver before its first statement
NoLocals ==
    [lmin |-> 0, lmax |-> 0, fac |-> 0, boundary |-> {}, count |-> 0, K2 |-> 0,
     k |-> 0, dlmin |-> 0, dlmax |-> 0, num_vertices_1 |-> 0, visited |-> {},
     todo |-> <<>>, phase |-> "none", sel |-> 0, nstart |-> 0, exc |-> "none",
     exit |-> "none", calls |-> <<>>]

\* an exception leaves the driver
Raise(exc) ==
    /\ pc' = "raised"
    /\ loc' = [loc EXCEPT !.exc = exc]
    /\ UNCHANGED <<mesh, hist, nops, cfg, log>>

\* lmin and lmax of a run
Lmin(c) == ((100 - c.tol) * 4 * c.target) \div 500
Lmax(c) == ((100 + c.tol) * 4 * c.target) \div 300

\* the statements before the loop: remesh lines 43-52, optimise lines 100-116
DriverEnter ==
    /\ pc = "start"
    /\ LET es == edges_list(mesh, cfg.order)
           ts == IF cfg.driver = "optimise" THEN MaxEdgeLength(mesh, es, 1)
                 ELSE cfg.target_start
           K2 == IF cfg.driver = "optimise"
                 THEN (IF cfg.kmax_start = None \/ cfg.kmax_start = 0
                       THEN cfg.kmax ELSE 2 * cfg.kmax_start)
                 ELSE 2 * cfg.kmax_start
       IN IF cfg.driver = "optimise" /\ Len(es) = 0 THEN Raise("ValueError")
          ELSE IF cfg.driver = "remesh" /\ cfg.target_start = None THEN Raise("TypeError")
          ELSE IF cfg.target = 0 THEN Raise("ZeroDivisionError")
          ELSE IF cfg.driver = "remesh" /\ cfg.kmax_start = None THEN Raise("TypeError")
          ELSE /\ loc' = [loc EXCEPT !.lmin = Lmin(cfg), !.lmax = Lmax(cfg),
                                     !.fac = (ts * 1000) \div cfg.target,
                                     !.boundary = vertices_on_boundary(mesh),
                                     !.count = 0, !.K2 = K2, !.k = 0,
                                     !.exit = IF cfg.kmax <= 0 THEN "exhausted" ELSE "none"]
               /\ pc' = IF cfg.kmax <= 0 THEN "done" ELSE "iter"
               /\ UNCHANGED <<mesh, hist, nops, cfg, log>>

\* the pass selected by count
PhaseOf(count) ==
    IF count = 1 THEN "split" ELSE IF count = 2 THEN "collapse"
    ELSE IF count = 3 THEN "swap" ELSE "none"

\* the head of an iteration: the ramp, count += 1, the vertex count sample
\* and the choice of the pass
IterBegin ==
    /\ pc = "iter"
    /\ IF 2 * loc.k <= loc.K2 /\ loc.K2 = 0 THEN Raise("ZeroDivisionError")
       ELSE
       LET scale_val == IF 2 * loc.k <= loc.K2
                        THEN (loc.fac * (loc.K2 - 2 * loc.k)) \div loc.K2 ELSE 0
           count == loc.count + 1
           phase == PhaseOf(count)
       IN /\ loc' = [loc EXCEPT
                       !.dlmin = (loc.lmin * scale_val) \div 1000,
                       !.dlmax = (loc.lmax * scale_val) \div 1000,
                       !.count = IF phase = "none" THEN 0 ELSE count,
                       !.sel = count,
                       !.phase = phase,
                       !.num_vertices_1 = IF loc.k % 20 = 0
                                          THEN Cardinality(DOMAIN mesh.vertex) ELSE @,
                       !.nstart = Cardinality(DOMAIN mesh.vertex),
                       !.visited = IF phase = "none" THEN @ ELSE {},
                       !.calls = <<>>,
                       !.todo = IF phase = "none" THEN <<>>
                                ELSE edges_list(mesh, cfg.order)]
          /\ pc' = "pass"
          /\ UNCHANGED <<mesh, hist, nops, cfg, log>>

\* the edge is passed over: continue
SkipEdge ==
    /\ loc' = [loc EXCEPT !.todo = Tail(@)]
    /\ UNCHANGED <<mesh, hist, nops, pc, cfg, log>>

\* the call as the pass remembers it: the edge, and after a collapse the
\* neighbours of the vertex that is left
CallRecord(op, u, v, out) ==
    [op |-> op, u |-> u, v |-> v, status |-> out.status,
     nbrs |-> IF op = "collapse" /\ out.status = "ok" /\ u \in DOMAIN out.mesh.halfedge
              THEN vertex_neighbours(out.mesh, u) ELSE {}]

\* the operator call that marks no vertex as visited
AfterCall_NoVisit(op, u, v, out, seen) ==
    /\ Call(op, u, v, 5, cfg.allow_boundary, out)
    /\ IF out.status \in {"ok", "None"}
       THEN /\ pc' = pc
            /\ loc' = [loc EXCEPT !.todo = Tail(@), !.visited = @,
                                  !.calls = Append(@, CallRecord(op, u, v, out))]
       ELSE /\ pc' = "raised"
            /\ loc' = [loc EXCEPT !.exc = out.status,
                                  !.calls = Append(@, CallRecord(op, u, v, out))]
    /\ UNCHANGED <<cfg, log>>

\* the operator call that marks only u as visited
AfterCall_OnlyU(op, u, v, out, seen) ==
    /\ Call(op, u, v, 5, cfg.allow_boundary, out)
    /\ IF out.status \in {"ok", "None"}
       THEN /\ pc' = pc
            /\ loc' = [loc EXCEPT !.todo = Tail(@), !.visited = @ \cup {u},
                                  !.calls = Append(@, CallRecord(op, u, v, out))]
       ELSE /\ pc' = "raised"
            /\ loc' = [loc EXCEPT !.exc = out.status,
                                  !.calls = Append(@, CallRecord(op, u, v, out))]
    /\ UNCHANGED <<cfg, log>>

\* an operator was called on the edge (u, v) and returned or raised
AfterCall(op, u, v, out, seen) ==
    /\ Call(op, u, v, 5, cfg.allow_boundary, out)
    /\ IF out.status \in {"ok", "None"}
       THEN /\ pc' = pc
            /\ loc' = [loc EXCEPT !.todo = Tail(@), !.visited = @ \cup seen,
                                  !.calls = Append(@, CallRecord(op, u, v, out))]
       ELSE /\ pc' = "raised"
            /\ loc' = [loc EXCEPT !.exc = out.status,
                                  !.calls = Append(@, CallRecord(op, u, v, out))]
    /\ UNCHANGED <<cfg, log>>

\* the split pass that compares with lmax alone
SplitStep_NoBand ==
    /\ pc = "pass" /\ loc.phase = "split" /\ loc.todo # <<>>
    /\ LET u == Head(loc.todo)[1]
           v == Head(loc.todo)[2]
       IN IF u \in loc.visited \/ v \in loc.visited THEN SkipEdge
          ELSE IF u \notin DOMAIN mesh.vertex \/ v \notin DOMAIN mesh.vertex
               THEN Raise("KeyError")
          ELSE IF edge_length(mesh, u, v) <= loc.lmax THEN SkipEdge
          ELSE AfterCall("split", u, v,
                         split_edge(mesh, u, v, 5, cfg.allow_boundary), {u, v})

\* one turn of the loop of the split pass
SplitStep ==
    /\ pc = "pass" /\ loc.phase = "split" /\ loc.todo # <<>>
    /\ LET u == Head(loc.todo)[1]
           v == Head(loc.todo)[2]
       IN IF u \in loc.visited \/ v \in loc.visited THEN SkipEdge
          ELSE IF u \notin DOMAIN mesh.vertex \/ v \notin DOMAIN mesh.vertex
               THEN Raise("KeyError")
          ELSE IF edge_length(mesh, u, v) <= loc.lmax + loc.dlmax THEN SkipEdge
          ELSE AfterCall("split", u, v,
                         split_edge(mesh, u, v, 5, cfg.allow_boundary), {u, v})

\* one turn of the loop of the collapse pass
CollapseStep ==
    /\ pc = "pass" /\ loc.phase = "collapse" /\ loc.todo # <<>>
    /\ LET u == Head(loc.todo)[1]
           v == Head(loc.todo)[2]
           out == collapse_edge(mesh, u, v)
       IN IF u \in loc.visited \/ v \in loc.visited THEN SkipEdge
          ELSE IF u \notin DOMAIN mesh.vertex \/ v \notin DOMAIN mesh.vertex
               THEN Raise("KeyError")
          ELSE IF edge_length(mesh, u, v) >= loc.lmin - loc.dlmin THEN SkipEdge
          ELSE IF out.status = "ok" /\ u \notin DOMAIN out.mesh.halfedge
               THEN AfterCall("collapse", u, v, Outcome(out.mesh, "KeyError", None), {})
          ELSE AfterCall("collapse", u, v, out,
                         IF out.status = "ok"
                         THEN {u, v} \cup DOMAIN out.mesh.halfedge[u] ELSE {})

\* abs(x)
Abs(x) == IF x < 0 THEN 0 - x ELSE x

\* the valence of a vertex as the swap pass counts it
Valency(m, key, boundary) ==
    vertex_degree(m, key) + (IF key \in boundary THEN 2 ELSE 0)

\* the swap pass that counts boundary vertices like interior ones
SwapStep_NoBoundaryBias ==
    /\ pc = "pass" /\ loc.phase = "swap" /\ loc.todo # <<>>
    /\ LET u == Head(loc.todo)[1]
           v == Head(loc.todo)[2]
       IN IF u \in loc.visited \/ v \in loc.visited THEN SkipEdge
          ELSE IF ~HasHalfedge(mesh, u, v) \/ ~HasHalfedge(mesh, v, u) THEN Raise("KeyError")
          ELSE
          LET f1 == mesh.halfedge[u][v]
              f2 == mesh.halfedge[v][u]
          IN IF f1 = None \/ f2 = None THEN SkipEdge
             ELSE IF f1 \notin DOMAIN mesh.face \/ f2 \notin DOMAIN mesh.face
                     \/ v \notin DOMAIN mesh.face[f1] \/ u \notin DOMAIN mesh.face[f2]
                  THEN Raise("KeyError")
             ELSE
             LET v1 == mesh.face[f1][v]
                 v2 == mesh.face[f2][u]
             IN IF v1 \notin DOMAIN mesh.halfedge \/ v2 \notin DOMAIN mesh.halfedge
                THEN Raise("KeyError")
                ELSE
                LET valency1 == Valency(mesh, u, {})
                    valency2 == Valency(mesh, v, {})
                    valency3 == Valency(mesh, v1, {})
                    valency4 == Valency(mesh, v2, {})
                    current_error == Abs(valency1 - 6) + Abs(valency2 - 6)
                                     + Abs(valency3 - 6) + Abs(valency4 - 6)
                    flipped_error == Abs(valency1 - 7) + Abs(valency2 - 7)
                                     + Abs(valency3 - 5) + Abs(valency4 - 5)
                IN IF current_error <= flipped_error THEN SkipEdge
                   ELSE AfterCall("swap", u, v, swap_edge(mesh, u, v), {u, v})

\* the swap pass that also swaps when the two errors are equal
SwapStep_SwapOnTie ==
    /\ pc = "pass" /\ loc.phase = "swap" /\ loc.todo # <<>>
    /\ LET u == Head(loc.todo)[1]
           v == Head(loc.todo)[2]
       IN IF u \in loc.visited \/ v \in loc.visited THEN SkipEdge
          ELSE IF ~HasHalfedge(mesh, u, v) \/ ~HasHalfedge(mesh, v, u) THEN Raise("KeyError")
          ELSE
          LET f1 == mesh.halfedge[u][v]
              f2 == mesh.halfedge[v][u]
          IN IF f1 = None \/ f2 = None THEN SkipEdge
             ELSE IF f1 \notin DOMAIN mesh.face \/ f2 \notin DOMAIN mesh.face
                     \/ v \notin DOMAIN mesh.face[f1] \/ u \notin DOMAIN mesh.face[f2]
                  THEN Raise("KeyError")
             ELSE
             LET v1 == mesh.face[f1][v]
                 v2 == mesh.face[f2][u]
             IN IF v1 \notin DOMAIN mesh.halfedge \/ v2 \notin DOMAIN mesh.halfedge
                THEN Raise("KeyError")
                ELSE
                LET valency1 == Valency(mesh, u, loc.boundary)
                    valency2 == Valency(mesh, v, loc.boundary)
                    valency3 == Valency(mesh, v1, loc.boundary)
                    valency4 == Valency(mesh, v2, loc.boundary)
                    current_error == Abs(valency1 - 6) + Abs(valency2 - 6)
                                     + Abs(valency3 - 6) + Abs(valency4 - 6)
                    flipped_error == Abs(valency1 - 7) + Abs(valency2 - 7)
                                     + Abs(valency3 - 5) + Abs(valency4 - 5)
                IN IF current_error < flipped_error THEN SkipEdge
                   ELSE AfterCall("swap", u, v, swap_edge(mesh, u, v), {u, v})

\* one turn of the loop of the swap pass
SwapStep ==
    /\ pc = "pass" /\ loc.phase = "swap" /\ loc.todo # <<>>
    /\ LET u == Head(loc.todo)[1]
           v == Head(loc.todo)[2]
       IN IF u \in loc.visited \/ v \in loc.visited THEN SkipEdge
          ELSE IF ~HasHalfedge(mesh, u, v) \/ ~HasHalfedge(mesh, v, u) THEN Raise("KeyError")
          ELSE
          LET f1 == mesh.halfedge[u][v]
              f2 == mesh.halfedge[v][u]
          IN IF f1 = None \/ f2 = None THEN SkipEdge
             ELSE IF f1 \notin DOMAIN mesh.face \/ f2 \notin DOMAIN mesh.face
                     \/ v \notin DOMAIN mesh.face[f1] \/ u \notin DOMAIN mesh.face[f2]
                  THEN Raise("KeyError")
             ELSE
             LET v1 == mesh.face[f1][v]
                 v2 == mesh.face[f2][u]
             IN IF v1 \notin DOMAIN mesh.halfedge \/ v2 \notin DOMAIN mesh.halfedge
                THEN Raise("KeyError")
                ELSE
                LET valency1 == Valency(mesh, u, loc.boundary)
                    valency2 == Valency(mesh, v, loc.boundary)
                    valency3 == Valency(mesh, v1, loc.boundary)
                    valency4 == Valency(mesh, v2, loc.boundary)
                    current_error == Abs(valency1 - 6) + Abs(valency2 - 6)
                                     + Abs(valency3 - 6) + Abs(valency4 - 6)
                    flipped_error == Abs(valency1 - 7) + Abs(valency2 - 7)
                                     + Abs(valency3 - 5) + Abs(valency4 - 5)
                IN IF current_error <= flipped_error THEN SkipEdge
                   ELSE AfterCall("swap", u, v, swap_edge(mesh, u, v), {u, v})

\* the convergence test without the wait for the end of the ramp
Converged_NoRampCheck ==
    /\ (loc.k + 10) % 20 = 0
    /\ Cardinality(DOMAIN mesh.vertex) # 0
    /\ 1000 * Abs(Cardinality(DOMAIN mesh.vertex) - loc.num_vertices_1)
          < cfg.divergence * Cardinality(DOMAIN mesh.vertex)

\* the convergence test of the iteration: (k - 10) % 20 == 0, the vertex
\* count has settled and the ramp is over
Converged ==
    /\ (loc.k + 10) % 20 = 0
    /\ Cardinality(DOMAIN mesh.vertex) # 0
    /\ 1000 * Abs(Cardinality(DOMAIN mesh.vertex) - loc.num_vertices_1)
          < cfg.divergence * Cardinality(DOMAIN mesh.vertex)
    /\ 2 * loc.k > loc.K2

\* what the iteration did, for the record
IterRecord(broke, smoothed, called, fixed) ==
    [k |-> loc.k, sel |-> loc.sel, phase |-> loc.phase, nstart |-> loc.nstart,
     nend |-> Cardinality(DOMAIN mesh.vertex), broke |-> broke,
     smoothed |-> smoothed, ufunc |-> called, fixed |-> fixed,
     on_boundary |-> vertices_on_boundary(mesh)]

\* the tail of an iteration: break on convergence, else smooth, call ufunc
\* and go to the next k
IterEnd ==
    /\ pc = "pass" /\ loc.todo = <<>>
    /\ IF (loc.k + 10) % 20 = 0 /\ Cardinality(DOMAIN mesh.vertex) = 0
       THEN Raise("ZeroDivisionError")
       ELSE IF Converged
       THEN /\ pc' = "done"
            /\ loc' = [loc EXCEPT !.exit = "break"]
            /\ log' = Append(log, IterRecord(TRUE, FALSE, FALSE, {}))
            /\ UNCHANGED <<mesh, hist, nops, cfg>>
       ELSE LET boundary == IF cfg.driver = "optimise"
                            THEN vertices_on_boundary(mesh) ELSE loc.boundary
            IN /\ mesh' = smooth_mesh_centroid(mesh, boundary)
               /\ log' = Append(log, IterRecord(FALSE, TRUE, cfg.ufunc, boundary))
               /\ loc' = [loc EXCEPT !.boundary = boundary, !.k = @ + 1,
                                     !.exit = IF loc.k + 1 >= cfg.kmax
                                              THEN "exhausted" ELSE @]
               /\ pc' = IF loc.k + 1 >= cfg.kmax THEN "done" ELSE "iter"
               /\ UNCHANGED <<hist, nops, cfg>>

InitDriver ==
    /\ cfg \in DriverConfigs
    /\ mesh = cfg.mesh
    /\ hist = [op |-> "init", u |-> None, v |-> None, t |-> 5, allow |-> FALSE,
               status |-> "ok", ret |-> None, pre |-> mesh, prev |-> NoPrev]
    /\ nops = 0
    /\ pc = "start"
    /\ loc = NoLocals
    /\ log = <<>>

NextDriver ==
    \/ DriverEnter \/ IterBegin \/ SplitStep \/ CollapseStep \/ SwapStep \/ IterEnd

SpecDriver == InitDriver /\ [][NextDriver]_vars

\* ------------------------------------------------------------------------
\* TriMesh.add_face
\* ------------------------------------------------------------------------

\* the most calls of add_face in a run
MaxAdds == 1

\* the longest vertex list passed to add_face
MaxFaceLen == 4

\* the lists of at most n elements of S
RECURSIVE SeqsUpTo(_, _)
SeqsUpTo(S, n) ==
    IF n = 0 THEN {<<>>}
    ELSE LET shorter == SeqsUpTo(S, n - 1)
         IN shorter \cup {Append(q, x) : q \in {r \in shorter : Len(r) = n - 1}, x \in S}

\* Mesh.add_face(vertices, fkey=None) of the store: a TopologyError for fewer
\* than three distinct vertices or for a half-edge that already has a face
Mesh_add_face(m, vs, fkey) ==
    LET key == IF fkey = None THEN m.max_int_fkey + 1 ELSE fkey
        distinct == {vs[i] : i \in 1..Len(vs)}
    IN IF Cardinality(distinct) < 3 \/ Cardinality(distinct) # Len(vs)
          \/ \E i \in 1..Len(vs) :
                /\ HasHalfedge(m, vs[i], vs[(i % Len(vs)) + 1])
                /\ m.halfedge[vs[i]][vs[(i % Len(vs)) + 1]] # None
       THEN Outcome(m, "TopologyError", None)
       ELSE Outcome(add_face(m, vs, key), "ok", key)

\* TriMesh.add_face(vertices, fkey=None)
TriMesh_add_face(m, vertices, fkey) ==
    IF Len(vertices) = 0 THEN Outcome(m, "IndexError", None)
    ELSE LET vs == IF vertices[Len(vertices)] = vertices[1]
                   THEN SubSeq(vertices, 1, Len(vertices) - 1) ELSE vertices
         IN IF Len(vs) # 3 THEN Outcome(m, "MeshError", None)
            ELSE Mesh_add_face(m, vs, fkey)

\* three vertices and no face
ThreeVertices ==
    from_vertices_and_faces(
        << <<0, 0, 0>>, <<8000, 0, 0>>, <<0, 8000, 0>> >>, <<>>)

\* three vertices and one face
OneTriangle ==
    from_vertices_and_faces(
        << <<0, 0, 0>>, <<8000, 0, 0>>, <<0, 8000, 0>> >>, << <<0, 1, 2>> >>)

InitTri ==
    /\ mesh \in {ThreeVertices, OneTriangle}
    /\ hist = [op |-> "init", u |-> None, v |-> None, t |-> 5, allow |-> FALSE,
               status |-> "ok", ret |-> None, pre |-> mesh, prev |-> NoPrev]
    /\ nops = 0
    /\ pc = "idle"
    /\ cfg = EmptyDict
    /\ loc = [vertices |-> <<>>]
    /\ log = <<>>

\* a call mesh.add_face(vertices)
AddFace ==
    /\ nops < MaxAdds
    /\ \E vertices \in SeqsUpTo(DOMAIN mesh.vertex, MaxFaceLen) :
          /\ Call("add_face", None, None, 5, FALSE,
                  TriMesh_add_face(mesh, vertices, None))
          /\ loc' = [vertices |-> vertices]
    /\ UNCHANGED <<pc, cfg, log>>

NextTri == AddFace

SpecTri == InitTri /\ [][NextTri]_vars

\* ------------------------------------------------------------------------
\* network_vertex_coloring
\* ------------------------------------------------------------------------

\* the most vertices of a network
MaxVerts == 4

\* the network with vertices 0..n-1 and the undirected edges E: halfedge has
\* both directions of every edge
NetworkOf(n, E) ==
    [halfedge |-> [u \in 0..(n - 1) |-> {v \in 0..(n - 1) : {u, v} \in E}]]

Networks ==
    UNION {{NetworkOf(n, E) :
              E \in SUBSET ({{u, v} : u \in 0..(n - 1), v \in 0..(n - 1)}
                            \ {{u} : u \in 0..(n - 1)})} :
           n \in 0..MaxVerts}

\* network.degree(key)
degree(network, key) == Cardinality(network.halfedge[key])

\* sorted(network.vertices(), key=degree)[::-1] for every order in which
\* vertices() may list the keys
DegreeOrders(network) ==
    LET V == DOMAIN network.halfedge
        n == Cardinality(V)
    IN {q \in [1..n -> V] :
          /\ \A i \in 1..n : \A j \in 1..n : i # j => q[i] # q[j]
          /\ \A i \in 1..n : \A j \in 1..n :
                i < j => degree(network, q[i]) >= degree(network, q[j])}

\* the for loop over uncolored that only looks at the first vertex of the
\* colour
ColorPass_FirstOnly(network, uncolored, i, colored_with_current) ==
    LET a == colored_with_current[1]
    IN colored_with_current \o
       SelectSeq(uncolored, LAMBDA b : b \notin network.halfedge[a])

\* the for loop over uncolored: b joins the colour when no vertex of the
\* colour has it as a neighbour
RECURSIVE ColorPass(_, _, _, _)
ColorPass(network, uncolored, i, colored_with_current) ==
    IF i > Len(uncolored) THEN colored_with_current
    ELSE LET b == uncolored[i]
         IN IF ~(\E j \in 1..Len(colored_with_current) :
                    b \in network.halfedge[colored_with_current[j]])
            THEN ColorPass(network, uncolored, i + 1, Append(colored_with_current, b))
            ELSE ColorPass(network, uncolored, i + 1, colored_with_current)

\* the state before the while loop
InitColor ==
    /\ cfg \in Networks
    /\ loc \in {[key_to_color |-> EmptyDict, uncolored |-> q, current_color |-> 0] :
                   q \in DegreeOrders(cfg)}
    /\ pc = "color"
    /\ mesh = EmptyDict
    /\ hist = EmptyDict
    /\ nops = 0
    /\ log = <<>>

\* one turn of the while loop
ColorRound ==
    /\ pc = "color" /\ loc.uncolored # <<>>
    /\ LET a == Head(loc.uncolored)
           rest == Tail(loc.uncolored)
           colored_with_current == ColorPass(cfg, rest, 1, <<a>>)
           now == {colored_with_current[j] : j \in 1..Len(colored_with_current)}
       IN loc' = [key_to_color |->
                     [key \in DOMAIN loc.key_to_color \cup now |->
                         IF key \in now THEN loc.current_color
                         ELSE loc.key_to_color[key]],
                  uncolored |-> SelectSeq(rest, LAMBDA b : b \notin now),
                  current_color |-> loc.current_color + 1]
    /\ UNCHANGED <<mesh, hist, nops, pc, cfg, log>>

\* return key_to_color
ColorReturn ==
    /\ pc = "color" /\ loc.uncolored = <<>>
    /\ pc' = "done"
    /\ UNCHANGED <<mesh, hist, nops, cfg, loc, log>>

NextColor == ColorRound \/ ColorReturn

SpecColor == InitColor /\ [][NextColor]_vars /\ WF_vars(NextColor)

\* ------------------------------------------------------------------------
\* unweld
\* ------------------------------------------------------------------------

\* the longest list passed as where
MaxWhere == 2

\* mesh.face_vertices(fkey, ordered=True): the cycle of the face as a list,
\* from the vertex start on
RECURSIVE CycleFrom(_, _, _)
CycleFrom(cyc, key, n) ==
    IF n = 0 THEN <<>> ELSE <<key>> \o CycleFrom(cyc, cyc[key], n - 1)

face_vertices(m, fkey, start) ==
    CycleFrom(m.face[fkey], start, Cardinality(DOMAIN m.face[fkey]))

\* the elements of a list
Elems(q) == {q[i] : i \in 1..Len(q)}

\* the loop over the vertices of the face: a vertex listed in where is
\* replaced by a new vertex at the same place
RECURSIVE UnweldCopy(_, _, _, _, _)
UnweldCopy(m, vertices, i, where, face) ==
    IF i > Len(vertices) THEN [mesh |-> m, face |-> face]
    ELSE IF vertices[i] \in Elems(where)
         THEN LET added == add_vertex(m, vertex_coordinates(m, vertices[i]))
              IN UnweldCopy(added.mesh, vertices, i + 1, where, Append(face, added.key))
         ELSE UnweldCopy(m, vertices, i + 1, where, Append(face, vertices[i]))

\* the loop over where that forgets the half-edge leaving key
RECURSIVE UnweldReset_IncomingOnly(_, _, _, _)
UnweldReset_IncomingOnly(m, fface, where, i) ==
    IF i > Len(where) THEN Outcome(m, "ok", None)
    ELSE IF where[i] \notin DOMAIN fface THEN Outcome(m, "KeyError", None)
    ELSE LET key == where[i]
             a == CHOOSE x \in DOMAIN fface : fface[x] = key
         IN UnweldReset_IncomingOnly(
               [m EXCEPT !.halfedge[a] = DictSet(@, key, None)],
               fface, where, i + 1)

\* the loop over where: the half-edges of the old face into and out of key
\* are set to None
RECURSIVE UnweldReset(_, _, _, _)
UnweldReset(m, fface, where, i) ==
    IF i > Len(where) THEN Outcome(m, "ok", None)
    ELSE IF where[i] \notin DOMAIN fface THEN Outcome(m, "KeyError", None)
    ELSE LET key == where[i]
             d == fface[key]
             a == CHOOSE x \in DOMAIN fface : fface[x] = key
             h1 == [m.halfedge EXCEPT ![a] = DictSet(@, key, None)]
             h2 == [h1 EXCEPT ![key] = DictSet(@, d, None)]
         IN UnweldReset([m EXCEPT !.halfedge = h2], fface, where, i + 1)

\* unweld(mesh, fkey, where), with the vertex the face's list starts from
unweld(m, fkey, where, start) ==
    IF fkey \notin DOMAIN m.face THEN Outcome(m, "KeyError", None)
    ELSE LET vertices == face_vertices(m, fkey, start)
             wh == IF where = <<>> THEN vertices ELSE where
             copied == UnweldCopy(m, vertices, 1, wh, <<>>)
             added == Mesh_add_face(copied.mesh, copied.face, None)
         IN IF added.status # "ok" THEN added
            ELSE LET reset == UnweldReset(added.mesh, added.mesh.face[fkey], wh, 1)
                 IN IF reset.status # "ok" THEN reset
                    ELSE Outcome([reset.mesh EXCEPT !.face = DictDel(@, fkey)],
                                 "ok", None)

\* the two triangles after a split of their common edge: two faces of four
\* vertices
SplitQuadMesh == split_edge(QuadMesh, 0, 2, 5, TRUE).mesh

InitWeld ==
    /\ mesh \in InitMeshes \cup {SplitQuadMesh}
    /\ hist = [op |-> "init", u |-> None, v |-> None, t |-> 5, allow |-> FALSE,
               status |-> "ok", ret |-> None, pre |-> mesh, prev |-> NoPrev]
    /\ nops = 0
    /\ pc = "idle"
    /\ cfg = EmptyDict
    /\ loc = [where |-> <<>>]
    /\ log = <<>>

\* a call unweld(mesh, fkey, where)
Unweld ==
    /\ nops = 0
    /\ \E fkey \in 0..(mesh.max_int_fkey + 1), where \in SeqsUpTo(ArgKeys(mesh), MaxWhere) :
          \E start \in (IF fkey \in DOMAIN mesh.face THEN DOMAIN mesh.face[fkey] ELSE {None}) :
             /\ Call("unweld", fkey, None, 5, FALSE, unweld(mesh, fkey, where, start))
             /\ loc' = [where |-> where]
    /\ UNCHANGED <<pc, cfg, log>>

NextWeld == Unweld

SpecWeld == InitWeld /\ [][NextWeld]_vars

\* ------------------------------------------------------------------------
\* Properties
\* ------------------------------------------------------------------------

\* C1: after any sequence of split_edge, collapse_edge and swap_edge calls,
\* for every face and every consecutive pair (a, b) of its cycle the
\* half-edge (a, b) exists and maps to that face, and no half-edge maps to a
\* face key that is not in the face store.
C1_FaceCyclesMatchHalfedges ==
    /\ \A f \in DOMAIN mesh.face : \A a \in DOMAIN mesh.face[f] :
          /\ HasHalfedge(mesh, a, mesh.face[f][a])
          /\ mesh.halfedge[a][mesh.face[f][a]] = f
    /\ \A a \in DOMAIN mesh.halfedge : \A b \in DOMAIN mesh.halfedge[a] :
          mesh.halfedge[a][b] # None => mesh.halfedge[a][b] \in DOMAIN mesh.face

C1_Witness ==
    /\ SplitDone
    /\ hist.prev.op = "swap"
    /\ hist.pre.halfedge[hist.u][hist.v] # None
    /\ hist.pre.halfedge[hist.v][hist.u] # None

\* C2: on a triangle mesh every face has exactly 3 vertices after any
\* operator call, split_edge included.
C2_FacesStayTriangles ==
    \A f \in DOMAIN mesh.face : Cardinality(DOMAIN mesh.face[f]) = 3

\* C3: whenever half-edge (u, v) is present the reverse half-edge (v, u) is
\* present too; after split_edge(u, v) returned w the entries (u, w), (w, u),
\* (w, v) and (v, w) all exist.
C3_ReverseHalfedgePresent ==
    /\ \A a \in DOMAIN mesh.halfedge : \A b \in DOMAIN mesh.halfedge[a] :
          HasHalfedge(mesh, b, a)
    /\ SplitDone =>
          /\ HasHalfedge(mesh, hist.u, hist.ret)
          /\ HasHalfedge(mesh, hist.ret, hist.u)
          /\ HasHalfedge(mesh, hist.ret, hist.v)
          /\ HasHalfedge(mesh, hist.v, hist.ret)

C3_Witness ==
    /\ SplitDone
    /\ hist.allow
    /\ IsBoundaryEdge(hist.pre, hist.u, hist.v)
    /\ mesh.halfedge[hist.ret][hist.u] = None

\* C4: split_edge with allow_boundary=False on an edge that has the None face
\* on one side returns None and leaves the vertex, face and half-edge stores
\* as they were.
C4_BoundarySplitSkipped ==
    (/\ hist.op = "split"
     /\ ~hist.allow
     /\ hist.t > 0 /\ hist.t < TDen
     /\ IsBoundaryEdge(hist.pre, hist.u, hist.v))
    => (hist.status = "None" /\ mesh = hist.pre)

C4_Witness ==
    /\ hist.op = "split"
    /\ ~hist.allow
    /\ hist.t = 5
    /\ IsBoundaryEdge(hist.pre, hist.u, hist.v)
    /\ hist.status = "None"

\* C5: split_edge with t <= 0 or t >= 1 fails with ValueError and leaves the
\* mesh unchanged, whatever u and v are.
C5_BadParameterValueError ==
    (hist.op = "split" /\ (hist.t <= 0 \/ hist.t >= TDen))
    => (hist.status = "ValueError" /\ mesh = hist.pre)

C5_Witness ==
    /\ hist.op = "split"
    /\ hist.t >= TDen
    /\ ~IsEdge(hist.pre, hist.u, hist.v)
    /\ hist.u \notin DOMAIN hist.pre.vertex
    /\ hist.status = "ValueError"

\* C6: split_edge raises ValueError when u and v are not neighbours, and the
\* mesh is unchanged.
C6_NotNeighboursValueError ==
    (hist.op = "split" /\ ~IsEdge(hist.pre, hist.u, hist.v))
    => (hist.status = "ValueError" /\ mesh = hist.pre)

\* C7: after split_edge(u, v) returned w, (u, w) and (w, v) map to the face
\* (u, v) mapped to before, (v, w) and (w, u) map to the face (v, u) mapped
\* to before, and (u, v) and (v, u) no longer exist.
C7_SplitRewiresHalfedges ==
    SplitDone =>
       LET u == hist.u
           v == hist.v
           w == hist.ret
       IN /\ HasHalfedge(mesh, u, w) /\ mesh.halfedge[u][w] = hist.pre.halfedge[u][v]
          /\ HasHalfedge(mesh, w, v) /\ mesh.halfedge[w][v] = hist.pre.halfedge[u][v]
          /\ HasHalfedge(mesh, v, w) /\ mesh.halfedge[v][w] = hist.pre.halfedge[v][u]
          /\ HasHalfedge(mesh, w, u) /\ mesh.halfedge[w][u] = hist.pre.halfedge[v][u]
          /\ ~HasHalfedge(mesh, u, v)
          /\ ~HasHalfedge(mesh, v, u)

C7_Witness ==
    /\ SplitDone
    /\ hist.pre.halfedge[hist.u][hist.v] # None
    /\ hist.pre.halfedge[hist.v][hist.u] # None
    /\ hist.pre.halfedge[hist.u][hist.v] # hist.pre.halfedge[hist.v][hist.u]
    /\ mesh.halfedge[hist.ret][hist.v] = hist.pre.halfedge[hist.u][hist.v]

\* C8: after split_edge split an interior edge (u, v), the new vertex w has
\* degree 2 and its neighbours are exactly u and v.
C8_NewVertexDegreeTwo ==
    (/\ SplitDone
     /\ hist.pre.halfedge[hist.u][hist.v] # None
     /\ hist.pre.halfedge[hist.v][hist.u] # None)
    => (/\ vertex_degree(mesh, hist.ret) = 2
        /\ vertex_neighbours(mesh, hist.ret) = {hist.u, hist.v})

C8_Witness ==
    /\ SplitDone
    /\ ~hist.allow
    /\ hist.pre.halfedge[hist.u][hist.v] # None
    /\ hist.pre.halfedge[hist.v][hist.u] # None
    /\ vertex_degree(mesh, hist.ret) = 2

\* the last two calls: split_edge(u, v) returned w, then collapse_edge merged
\* w into u or into v
SplitThenCollapse ==
    /\ hist.op = "collapse"
    /\ hist.prev.op = "split"
    /\ hist.v = hist.prev.ret
    /\ hist.u \in {hist.prev.u, hist.prev.v}

\* C9: splitting an edge (u, v) and then collapsing the new vertex w back
\* into u or into v restores the number of undirected edges and the number
\* of faces.
C9_SplitCollapseRestoresCounts ==
    SplitThenCollapse =>
       /\ Cardinality(edges(mesh)) = Cardinality(edges(hist.prev.pre))
       /\ Cardinality(DOMAIN mesh.face) = Cardinality(DOMAIN hist.prev.pre.face)

C9_Witness ==
    /\ SplitThenCollapse
    /\ hist.status = "ok"
    /\ hist.u = hist.prev.v
    /\ hist.prev.ret \notin DOMAIN mesh.vertex

\* the vertex opposite to the edge (u, v) in the face of half-edge (u, v)
Opposite(m, u, v) == m.face[m.halfedge[u][v]][v]

\* the last two calls: swap_edge(u, v) swapped the edge, then swap_edge was
\* called on the new edge between the two opposite vertices
SwapThenSwap ==
    /\ hist.op = "swap"
    /\ hist.prev.op = "swap"
    /\ {hist.u, hist.v} = {Opposite(hist.prev.pre, hist.prev.u, hist.prev.v),
                           Opposite(hist.prev.pre, hist.prev.v, hist.prev.u)}

\* C10: swap_edge(u, v) followed by swap_edge on the new edge (v1, v2) gives
\* back two triangles with the vertex sets of the original two.
C10_SwapTwiceRestoresTriangles ==
    SwapThenSwap =>
       /\ IsEdge(mesh, hist.prev.u, hist.prev.v)
       /\ FaceVertexSets(mesh) = FaceVertexSets(hist.prev.pre)
       /\ DOMAIN mesh.face[mesh.halfedge[hist.prev.u][hist.prev.v]]
              \in {DOMAIN hist.prev.pre.face[hist.prev.pre.halfedge[hist.prev.u][hist.prev.v]],
                   DOMAIN hist.prev.pre.face[hist.prev.pre.halfedge[hist.prev.v][hist.prev.u]]}

C10_Witness ==
    /\ SwapThenSwap
    /\ hist.status = "ok"
    /\ ~IsEdge(hist.pre, hist.prev.u, hist.prev.v)
    /\ IsEdge(mesh, hist.prev.u, hist.prev.v)

\* C11: swap_edge(u, v) on an interior edge whose two opposite vertices
\* coincide raises nothing and leaves vertices, faces and half-edges as they
\* were.
C11_SwapCoincidingOppositesSkipped ==
    (/\ hist.op = "swap"
     /\ IsEdge(hist.pre, hist.u, hist.v)
     /\ ~IsBoundaryEdge(hist.pre, hist.u, hist.v)
     /\ Opposite(hist.pre, hist.u, hist.v) = Opposite(hist.pre, hist.v, hist.u))
    => (hist.status = "None" /\ mesh = hist.pre)

C11_Witness ==
    /\ hist.op = "swap"
    /\ IsEdge(hist.pre, hist.u, hist.v)
    /\ ~IsBoundaryEdge(hist.pre, hist.u, hist.v)
    /\ Cardinality(DOMAIN hist.pre.face[hist.pre.halfedge[hist.u][hist.v]]) = 3
    /\ Opposite(hist.pre, hist.u, hist.v) = Opposite(hist.pre, hist.v, hist.u)
    /\ hist.status = "None"

\* C12: after collapse_edge(mesh, u, v) completed on adjacent u and v, v is
\* not in the vertex store, no half-edge has v as an endpoint, no face cycle
\* contains v, and u still exists with its adjacency row.
C12_CollapseRemovesVertex ==
    (hist.op = "collapse" /\ hist.status = "ok") =>
       /\ hist.v \notin DOMAIN mesh.vertex
       /\ hist.v \notin DOMAIN mesh.halfedge
       /\ \A a \in DOMAIN mesh.halfedge : hist.v \notin DOMAIN mesh.halfedge[a]
       /\ \A f \in DOMAIN mesh.face :
             /\ hist.v \notin DOMAIN mesh.face[f]
             /\ \A a \in DOMAIN mesh.face[f] : mesh.face[f][a] # hist.v
       /\ hist.u \in DOMAIN mesh.vertex
       /\ hist.u \in DOMAIN mesh.halfedge

C12_Witness ==
    /\ hist.op = "collapse"
    /\ hist.status = "ok"
    /\ IsEdge(hist.pre, hist.u, hist.v)
    /\ vertex_degree(hist.pre, hist.v) >= 3
    /\ hist.v \notin DOMAIN mesh.vertex
    /\ vertex_degree(mesh, hist.u) >= 3

\* the run of the end-to-end example
IsExampleRun ==
    /\ cfg.driver = "remesh" /\ cfg.mesh = PyramidMesh
    /\ cfg.target = ExampleTarget /\ cfg.kmax = ExampleKmax
    /\ cfg.target_start = None /\ cfg.kmax_start = None /\ cfg.allow_boundary

\* C13: the driver always terminates by returning: for every mesh and every
\* parameter choice it never leaves by an exception, it executes at most
\* kmax outer iterations, and when it has returned it did so by the
\* convergence break or by exhausting kmax.
C13_DriverAlwaysReturns ==
    /\ pc # "raised"
    /\ Len(log) <= cfg.kmax
    /\ (pc = "done" => loc.exit \in {"break", "exhausted"})

\* C14: on the pyramid, remesh called with only target=0.5, tol=0.05,
\* kmax=300, allow_boundary=True does not raise, and once it has returned
\* every edge with no end on the fixed boundary has a length in [lmin, lmax].
C14_ExampleRunDoesNotRaise ==
    IsExampleRun =>
        /\ ~(pc = "raised")
        /\ (pc = "done" =>
              \A e \in edges(mesh) :
                 \A a \in e : \A b \in e \ {a} :
                    (e \cap loc.boundary = {}) =>
                       /\ edge_length(mesh, a, b) >= Lmin(cfg)
                       /\ edge_length(mesh, a, b) <= Lmax(cfg))

\* C15: an iteration ends the run by the break exactly when its index k is
\* 10 mod 20, k > kmax_start, and |1 - n1/n2| < divergence for n1 the vertex
\* count at the start of iteration k - 10 and n2 the vertex count after the
\* pass of iteration k; every other iteration continues, and a break is the
\* last thing the driver does.
C15_BreakOnlyOnConvergence ==
    \A i \in 1..Len(log) :
       LET r == log[i]
       IN /\ r.k = i - 1
          /\ r.broke <=>
                /\ r.k % 20 = 10
                /\ 2 * r.k > loc.K2
                /\ 1000 * Abs(r.nend - log[i - 10].nstart) < cfg.divergence * r.nend
          /\ r.broke => (i = Len(log) /\ pc = "done" /\ loc.exit = "break")

\* a run that went on at k = 10 after the ramp, because the vertex count
\* had changed, and stopped by the break at k = 30
C15_Witness ==
    /\ pc = "done" /\ loc.exit = "break" /\ Len(log) = 31
    /\ log[31].broke /\ ~log[11].broke
    /\ 20 > loc.K2
    /\ log[11].nend # log[1].nstart

\* C16: with a callback given, the callback is invoked in every outer
\* iteration the driver executes, the terminating one included, with that
\* iteration's index: the indices seen are 0, 1, 2, ... with no gap.
C16_UfuncEveryIteration ==
    cfg.ufunc => \A i \in 1..Len(log) : log[i].ufunc /\ log[i].k = i - 1

\* C17: a topology error raised by an operator for one edge during a pass
\* never aborts the run: the driver is never left by a TopologyError.
C17_TopologyErrorNeverAborts ==
    ~(pc = "raised" /\ loc.exc = "TopologyError")

\* C20: every outer iteration runs exactly one of the split, collapse and
\* swap passes, chosen round-robin in that order by count, which is in
\* {1, 2, 3} whenever a pass is selected.
C20_OnePassPerIteration ==
    /\ \A i \in 1..Len(log) :
          /\ log[i].sel = ((i - 1) % 3) + 1
          /\ log[i].phase = PhaseOf(((i - 1) % 3) + 1)
    /\ (pc = "pass" => loc.phase \in {"split", "collapse", "swap"} /\ loc.count \in {1, 2, 3})

\* the vertex list without a last vertex equal to the first
IgnoreClosing(vertices) ==
    IF Len(vertices) > 1 /\ vertices[Len(vertices)] = vertices[1]
    THEN SubSeq(vertices, 1, Len(vertices) - 1) ELSE vertices

\* C18: TriMesh.add_face adds a face only when the vertex list, a last
\* vertex equal to the first ignored, has exactly three vertices; for every
\* other list it raises MeshError and leaves the mesh unchanged.
C18_AddFaceThreeOrMeshError ==
    hist.op = "add_face" =>
       /\ (mesh # hist.pre => Len(IgnoreClosing(loc.vertices)) = 3)
       /\ (Len(IgnoreClosing(loc.vertices)) # 3 =>
              hist.status = "MeshError" /\ mesh = hist.pre)

\* C19: network_vertex_coloring terminates, and what it returns gives every
\* vertex a colour and no two adjacent vertices (u in halfedge[v]) the same
\* colour.
C19_ColoringProperAndTerminates ==
    /\ [](pc = "done" =>
            /\ DOMAIN loc.key_to_color = DOMAIN cfg.halfedge
            /\ \A v \in DOMAIN cfg.halfedge : \A u \in cfg.halfedge[v] :
                  loc.key_to_color[u] # loc.key_to_color[v])
    /\ <>(pc = "done")

\* a returned colouring of a network with an edge and with two vertices
\* that share a colour
C19_Witness ==
    /\ pc = "done"
    /\ \E v \in DOMAIN cfg.halfedge : cfg.halfedge[v] # {}
    /\ \E u \in DOMAIN cfg.halfedge : \E v \in DOMAIN cfg.halfedge :
          u # v /\ loc.key_to_color[u] = loc.key_to_color[v]
    /\ loc.current_color >= 3

\* C21: in every outer iteration the driver executes, the iteration in which
\* it terminates included, the pass is followed by one smoothing iteration
\* with the boundary vertices fixed.
C21_SmoothingEveryIteration ==
    \A i \in 1..Len(log) :
       log[i].smoothed /\ log[i].on_boundary \subseteq log[i].fixed

\* C22: whenever the driver uses its boundary set, for the valences of the
\* swap pass and as the fixed set of the smoothing, the set is the set of the
\* vertices on the boundary of the mesh at that moment.
C22_BoundarySetIsCurrent ==
    /\ (pc = "pass" /\ loc.phase = "swap" /\ loc.todo # <<>>) =>
          loc.boundary = vertices_on_boundary(mesh)
    /\ \A i \in 1..Len(log) :
          log[i].smoothed => log[i].fixed = log[i].on_boundary

\* the deviation from 6 of the valence of key, biased by 2 on the boundary
\* and changed by delta
Deviation(m, key, boundary, delta) ==
    Abs(vertex_degree(m, key) + (IF key \in boundary THEN 2 ELSE 0) + delta - 6)

\* the next edge of the swap pass is unvisited and interior
SwapCandidate ==
    /\ pc = "pass" /\ loc.phase = "swap" /\ loc.todo # <<>>
    /\ Head(loc.todo)[1] \notin loc.visited
    /\ Head(loc.todo)[2] \notin loc.visited
    /\ IsEdge(mesh, Head(loc.todo)[1], Head(loc.todo)[2])
    /\ ~IsBoundaryEdge(mesh, Head(loc.todo)[1], Head(loc.todo)[2])

\* swapping the next edge of the swap pass strictly reduces the total
\* deviation from 6 of the valences of u, v, v1 and v2
SwapImproves ==
    LET u == Head(loc.todo)[1]
        v == Head(loc.todo)[2]
        v1 == Opposite(mesh, u, v)
        v2 == Opposite(mesh, v, u)
    IN Deviation(mesh, u, loc.boundary, 0) + Deviation(mesh, v, loc.boundary, 0)
        + Deviation(mesh, v1, loc.boundary, 0) + Deviation(mesh, v2, loc.boundary, 0)
       > Deviation(mesh, u, loc.boundary, 0 - 1) + Deviation(mesh, v, loc.boundary, 0 - 1)
        + Deviation(mesh, v1, loc.boundary, 1) + Deviation(mesh, v2, loc.boundary, 1)

\* C23: in the swap pass the operator is invoked on an unvisited interior
\* edge (u, v) if and only if the swap strictly reduces the total absolute
\* deviation from 6 of the boundary-biased valences of u, v, v1 and v2 (u and
\* v lose one, v1 and v2 gain one); on a tie there is no swap.
C23_SwapIffStrictlyBetter ==
    [][SwapCandidate =>
          ((nops' = nops + 1 /\ hist'.op = "swap"
               /\ hist'.u = Head(loc.todo)[1] /\ hist'.v = Head(loc.todo)[2])
             <=> SwapImproves)]_vars

\* the first swap of a swap pass has just been made, after at least one
\* earlier edge of the pass was passed over
C23_Witness ==
    /\ pc = "pass" /\ loc.phase = "swap" /\ Len(loc.calls) = 1
    /\ hist.op = "swap" /\ hist.status = "ok"
    /\ ~IsEdge(mesh, hist.u, hist.v)
    /\ Len(loc.todo) + 2 <= Cardinality(edges(hist.pre))

\* the boundary-biased valences of u, v, v1, v2 for the next edge of the swap
\* pass
SwapValences ==
    LET u == Head(loc.todo)[1]
        v == Head(loc.todo)[2]
    IN <<Valency(mesh, u, loc.boundary), Valency(mesh, v, loc.boundary),
         Valency(mesh, Opposite(mesh, u, v), loc.boundary),
         Valency(mesh, Opposite(mesh, v, u), loc.boundary)>>

\* current_error and flipped_error of four valences
CurrentError(val) ==
    Abs(val[1] - 6) + Abs(val[2] - 6) + Abs(val[3] - 6) + Abs(val[4] - 6)
FlippedError(val) ==
    Abs(val[1] - 1 - 6) + Abs(val[2] - 1 - 6) + Abs(val[3] + 1 - 6) + Abs(val[4] + 1 - 6)

\* the operator is invoked on the next edge of the pass
OperatorInvoked ==
    /\ nops' = nops + 1
    /\ hist'.u = Head(loc.todo)[1] /\ hist'.v = Head(loc.todo)[2]

\* C24 as stated: for an interior edge whose valences (u, v, v1, v2) are
\* (7, 7, 5, 5) current_error equals flipped_error and the swap pass skips
\* the swap.
C24_SevenSevenFiveFiveSkipped ==
    [][(SwapCandidate /\ SwapValences = <<7, 7, 5, 5>>) =>
          /\ CurrentError(SwapValences) = FlippedError(SwapValences)
          /\ ~OperatorInvoked]_vars

\* C24 amended: for an interior edge whose valences (u, v, v1, v2) are
\* (7, 7, 5, 5) current_error is 4 and flipped_error is 0, and the swap pass
\* invokes the swap.
C24_SevenSevenFiveFiveSwapped ==
    [][(SwapCandidate /\ SwapValences = <<7, 7, 5, 5>>) =>
          /\ CurrentError(SwapValences) = 4
          /\ FlippedError(SwapValences) = 0
          /\ OperatorInvoked /\ hist'.op = "swap"]_vars

\* the edge (0, 1) of the six-triangle mesh, with valences (7, 7, 5, 5), has
\* just been swapped
C24_Witness ==
    /\ pc = "pass" /\ loc.phase = "swap"
    /\ hist.op = "swap" /\ hist.status = "ok" /\ hist.pre = ValenceMesh
    /\ <<Valency(hist.pre, hist.u, loc.boundary), Valency(hist.pre, hist.v, loc.boundary),
         Valency(hist.pre, Opposite(hist.pre, hist.u, hist.v), loc.boundary),
         Valency(hist.pre, Opposite(hist.pre, hist.v, hist.u), loc.boundary)>>
          = <<7, 7, 5, 5>>
    /\ IsEdge(mesh, Opposite(hist.pre, hist.u, hist.v), Opposite(hist.pre, hist.v, hist.u))

CallerScale ==
    IF loc.k <= cfg.kmax_start
    THEN (((cfg.target_start * 1000) \div cfg.target) * (2 * cfg.kmax_start - 2 * loc.k))
            \div (2 * cfg.kmax_start)
    ELSE 0

\* C26: for k <= kmax_start the band is (dlmin, dlmax) = (lmin*s, lmax*s)
\* with s = (target_start/target)*(1 - k/kmax_start) for the target_start
\* the caller passed, and for k > kmax_start dlmin = dlmax = 0.
C26_BandFromCallerTargetStart ==
    (pc = "pass" /\ cfg.target_start # None /\ cfg.kmax_start # None /\ cfg.kmax_start # 0) =>
       /\ loc.dlmin = (Lmin(cfg) * CallerScale) \div 1000
       /\ loc.dlmax = (Lmax(cfg) * CallerScale) \div 1000

\* C27: within one pass no operator is invoked on an edge with an endpoint
\* that was an endpoint of an edge operated on earlier in the pass, and in
\* the collapse pass none on an edge with an endpoint that was a neighbour
\* of the surviving vertex u right after an earlier collapse of the pass.
C27_NoOperatorOnVisited ==
    \A j \in 1..Len(loc.calls) : \A i \in 1..(j - 1) :
       {loc.calls[j].u, loc.calls[j].v}
          \cap ({loc.calls[i].u, loc.calls[i].v} \cup loc.calls[i].nbrs) = {}

\* a collapse pass has made a second collapse, away from the first one and
\* from the neighbours of its surviving vertex
C27_Witness ==
    /\ pc = "pass" /\ loc.phase = "collapse" /\ Len(loc.calls) >= 2
    /\ loc.calls[1].status = "ok" /\ loc.calls[1].nbrs # {}
    /\ loc.calls[2].status = "ok"

\* C28: in every pass each edge (u, v) of the sequence taken at the start of
\* the pass for which the driver reads edge_length(u, v) or halfedge[u][v],
\* or on which it invokes an operator, is still an edge of the mesh at that
\* moment, with both endpoints present; no lookup of the pass fails.
C28_TraversedEdgesStillExist ==
    /\ (pc = "pass" /\ loc.todo # <<>>
          /\ Head(loc.todo)[1] \notin loc.visited
          /\ Head(loc.todo)[2] \notin loc.visited) =>
             /\ Head(loc.todo)[1] \in DOMAIN mesh.vertex
             /\ Head(loc.todo)[2] \in DOMAIN mesh.vertex
             /\ IsEdge(mesh, Head(loc.todo)[1], Head(loc.todo)[2])
    /\ ~(pc = "raised" /\ loc.exc = "KeyError")

\* the pass reads an edge of its sequence after the mesh has lost a vertex
\* and gained none since the sequence was taken
C28_Witness ==
    /\ pc = "pass" /\ loc.phase = "collapse" /\ loc.todo # <<>>
    /\ Len(loc.calls) >= 1 /\ loc.calls[1].status = "ok"
    /\ Cardinality(DOMAIN mesh.vertex) < loc.nstart
    /\ Head(loc.todo)[1] \notin loc.visited
    /\ Head(loc.todo)[2] \notin loc.visited

\* C29: a split_edge(u, v) call that returns w adds the vertex w, a key that
\* was not in the mesh, and changes nothing else but half-edge entries among
\* the pairs of u, v, w and the successor entries of u, v, w in the faces
\* incident to the edge (u, v): every existing vertex keeps its attributes,
\* every other face its cycle, every other half-edge entry its value, and
\* the number of faces is the same.
C29_SplitFrame ==
    SplitDone =>
       LET m0 == hist.pre
           u == hist.u
           v == hist.v
           w == hist.ret
           S == {u, v, w}
           incident == {m0.halfedge[u][v], m0.halfedge[v][u]} \ {None}
           keys == DOMAIN mesh.halfedge \cup DOMAIN m0.halfedge
       IN /\ w \notin DOMAIN m0.vertex
          /\ DOMAIN mesh.vertex = DOMAIN m0.vertex \cup {w}
          /\ \A key \in DOMAIN m0.vertex : mesh.vertex[key] = m0.vertex[key]
          /\ DOMAIN mesh.face = DOMAIN m0.face
          /\ \A f \in DOMAIN m0.face \ incident : mesh.face[f] = m0.face[f]
          /\ \A f \in incident :
                /\ DOMAIN mesh.face[f] = DOMAIN m0.face[f] \cup {w}
                /\ \A a \in DOMAIN m0.face[f] \ S : mesh.face[f][a] = m0.face[f][a]
          /\ \A a \in keys : \A b \in keys :
                (a \notin S \/ b \notin S) =>
                   /\ HasHalfedge(mesh, a, b) <=> HasHalfedge(m0, a, b)
                   /\ HasHalfedge(m0, a, b) => mesh.halfedge[a][b] = m0.halfedge[a][b]

\* an interior edge, with a face on either side and other faces around, has
\* just been split
C29_Witness ==
    /\ SplitDone
    /\ hist.pre.halfedge[hist.u][hist.v] # None
    /\ hist.pre.halfedge[hist.v][hist.u] # None
    /\ Cardinality(DOMAIN hist.pre.face) > 2
    /\ hist.ret \in DOMAIN mesh.vertex

\* unweld has returned
UnweldDone == hist.op = "unweld" /\ hist.status = "ok"

====
